---------------------------- MODULE Spec2Model ----------------------------
(***************************************************************************)
(* A model of the asset loading layer of python_template: the object      *)
(* store helpers of gcs.py and the asset identity, remote loader,         *)
(* cleaning pipeline, local cache and DataManager of data.py.             *)
(*                                                                         *)
(* Python strings are sequences of one-character strings, so that          *)
(* str.replace, str.split, str.startswith and strptime are computed the   *)
(* way the code computes them.                                             *)
(***************************************************************************)
EXTENDS Integers, Sequences, FiniteSets, TLC

VARIABLES
    \* the world outside the process
    bucket,      \* the objects of the bucket GCP_BUCKET_ID (read only)
    cache,       \* the files under LocalDataCache.data_dir: path -> table
    assets,      \* the assets the callers of this run ask for
    ncalls,      \* how many calls the callers have made
    \* gcs.py: get_gcs_client under lru_cache(1)
    client,      \* the cached storage.Client (0: nothing cached yet)
    constructed, \* how many storage.Client objects have been constructed
    used,        \* the clients that store operations have been made on
    \* one entry per caller (a thread that calls into data.py)
    pc,          \* where the caller is in its call
    req,         \* the call: op, asset, force_reload, clean, blob_limit
    hit,         \* load_asset: cached_files[0]
    handle,      \* what get_gcs_client() returned to the caller
    blobs,       \* load_polygon_data_asset_from_gcs: blobs, as submitted
    pending,     \* the futures that have not completed (indexes of blobs)
    data,        \* load_polygon_data_asset_from_gcs: data
    df,          \* the table loaded, before cleaning
    result,      \* what the call returned
    err,         \* the exception that ended the call ("" when none)
    listing,     \* list_assets_by_type: the assets returned
    \* what has happened, kept to state the properties
    downloaded,  \* the blobs the call has downloaded, in completion order
    nstore,      \* the object store calls the call has made
    saved,       \* whether the call wrote the cache, and what was there
    missAtCheck, \* load_asset: no cached file matched at the cache check
    coldAtCall,  \* load_asset: no cached file matched when the call began
    overlap,     \* the callers whose load_asset call overlapped this one
    stale,       \* the cache file was written again after this call's save
    first,       \* the first load_asset to succeed from a cold cache
    later,       \* the call began after first had returned
    intactAtLoad,\* first's cache write was the last when the call read it
    \* sort_blobs_by_date called on its own
    sortIn,      \* the list of blob names passed in
    sortOut,     \* what the call produced
    \* asset identities on their own
    qA,          \* the asset whose files are listed and cache name computed
    qB,          \* a second asset identity
    qListed,     \* list_polygon_asset_files(qA), once called
    qNames       \* the cache file names of qA and qB, once computed

storeVars  == <<bucket, cache, assets>>

clientVars == <<client, constructed, used>>
callVars   == <<pc, req, hit, handle, blobs, pending, data, df, result, err,
                listing>>
histVars   == <<ncalls, downloaded, nstore, saved, missAtCheck, coldAtCall,
                overlap, stale, first, later, intactAtLoad>>
mainVars   == <<storeVars, clientVars, callVars, histVars>>
sortVars   == <<sortIn, sortOut>>
nameVars   == <<qA, qB, qListed, qNames>>
vars       == <<mainVars, sortVars, nameVars>>

\* An Optional[int]: <<>> is None, <<n>> is the integer n.
NoInt == <<>>

(***************************************************************************)
(* Strings                                                                 *)
(***************************************************************************)
DOT   == "."
SLASH == "/"
DASH  == "-"

polygon == <<"p", "o", "l", "y", "g", "o", "n">>
options == <<"o", "p", "t", "i", "o", "n", "s">>
index   == <<"i", "n", "d", "e", "x">>
equity  == <<"e", "q", "u", "i", "t", "y">>
forex   == <<"f", "o", "r", "e", "x">>
ohlcv   == <<"o", "h", "l", "c", "v">>
ohlc    == <<"o", "h", "l", "c">>
oneDay  == <<"1", "d">>
dotJoblib == <<".", "j", "o", "b", "l", "i", "b">>
dotJsonl  == <<".", "j", "s", "o", "n", "l">>

\* str.startswith
StartsWith(s, p) == Len(p) <= Len(s) /\ SubSeq(s, 1, Len(p)) = p

\* str.endswith
EndsWith(s, p) ==
    Len(p) <= Len(s) /\ SubSeq(s, Len(s) - Len(p) + 1, Len(s)) = p

\* str.replace(a, b) for one-character a and b
ReplaceChar(s, a, b) == [i \in 1..Len(s) |-> IF s[i] = a THEN b ELSE s[i]]

\* str.replace(pat, ""): every non-overlapping occurrence, left to right
RECURSIVE RemoveAll(_, _)
RemoveAll(s, pat) ==
    IF s = <<>> THEN <<>>
    ELSE IF StartsWith(s, pat)
         THEN RemoveAll(SubSeq(s, Len(pat) + 1, Len(s)), pat)
         ELSE <<Head(s)>> \o RemoveAll(Tail(s), pat)

\* str.split("/")[-1]: what follows the last separator
LastSegment(s) ==
    LET seps == {i \in 1..Len(s) : s[i] = SLASH}
        from == IF seps = {} THEN 1
                ELSE (CHOOSE i \in seps : \A j \in seps : j <= i) + 1
    IN SubSeq(s, from, Len(s))

(***************************************************************************)
(* gcs.py: sort_blobs_by_date                                              *)
(***************************************************************************)
Digits == <<"0", "1", "2", "3", "4", "5", "6", "7", "8", "9">>
IsDigit(c) == \E i \in 1..10 : Digits[i] = c
DigitVal(c) == (CHOOSE i \in 1..10 : Digits[i] = c) - 1
IsNonZeroDigit(c) == IsDigit(c) /\ c # "0"

IsLeap(y) == (y % 4 = 0 /\ y % 100 # 0) \/ y % 400 = 0
DaysInMonth(y, m) ==
    IF m = 2 THEN (IF IsLeap(y) THEN 29 ELSE 28)
    ELSE IF m \in {4, 6, 9, 11} THEN 30 ELSE 31

ParseFailed == [ok |-> FALSE, key |-> 0]

\* The day directive %d at the end of the format: 3[01] | [12]\d | 0[1-9] |
\* [1-9] | " "[1-9], and nothing may remain after it.
ParseDay(r) ==
    IF Len(r) = 2 /\ r[1] = "3" /\ r[2] \in {"0", "1"}
        THEN 30 + DigitVal(r[2])
    ELSE IF Len(r) = 2 /\ r[1] \in {"1", "2"} /\ IsDigit(r[2])
        THEN 10 * DigitVal(r[1]) + DigitVal(r[2])
    ELSE IF Len(r) = 2 /\ r[1] \in {"0", " "} /\ IsNonZeroDigit(r[2])
        THEN DigitVal(r[2])
    ELSE IF Len(r) = 1 /\ IsNonZeroDigit(r[1])
        THEN DigitVal(r[1])
    ELSE 0

\* datetime.strptime(s, "%Y-%m-%d"): %Y is four digits, %m is 1[0-2] | 0[1-9]
\* | [1-9]; the result is a datetime only for a day that exists. key orders
\* the datetimes.
strptime(s) ==
    IF ~(Len(s) >= 6 /\ (\A i \in 1..4 : IsDigit(s[i])) /\ s[5] = DASH)
        THEN ParseFailed
    ELSE
    LET y == 1000 * DigitVal(s[1]) + 100 * DigitVal(s[2])
             + 10 * DigitVal(s[3]) + DigitVal(s[4])
        two == Len(s) >= 7
               /\ \/ s[6] = "1" /\ s[7] \in {"0", "1", "2"}
                  \/ s[6] = "0" /\ IsNonZeroDigit(s[7])
        mlen == IF two THEN 2 ELSE IF IsNonZeroDigit(s[6]) THEN 1 ELSE 0
        m == IF mlen = 2 THEN 10 * DigitVal(s[6]) + DigitVal(s[7])
             ELSE IF mlen = 1 THEN DigitVal(s[6]) ELSE 0
        p == 6 + mlen
    IN IF mlen = 0 \/ Len(s) < p \/ s[p] # DASH THEN ParseFailed
       ELSE LET d == ParseDay(SubSeq(s, p + 1, Len(s)))
            IN IF d = 0 \/ y < 1 \/ d > DaysInMonth(y, m) THEN ParseFailed
               ELSE [ok |-> TRUE, key |-> y * 10000 + m * 100 + d]

\* extract_date(blob)
extract_date(blob) == strptime(RemoveAll(LastSegment(blob), dotJsonl))

\* InsertByKey as an unstable sort would do it: x goes before the elements
\* of its own key.
RECURSIVE InsertBeforeEqualKeys(_, _)
InsertBeforeEqualKeys(x, s) ==
    IF s = <<>> THEN <<x>>
    ELSE IF s[Len(s)].key < x.key THEN Append(s, x)
         ELSE Append(InsertBeforeEqualKeys(x, SubSeq(s, 1, Len(s) - 1)),
                     s[Len(s)])

\* One step of a stable sort by key: x goes after every element whose key is
\* not greater than its own.
RECURSIVE InsertByKey(_, _)
InsertByKey(x, s) ==
    IF s = <<>> THEN <<x>>
    ELSE IF s[Len(s)].key <= x.key THEN Append(s, x)
         ELSE Append(InsertByKey(x, SubSeq(s, 1, Len(s) - 1)), s[Len(s)])

RECURSIVE SortedByKey(_)
SortedByKey(s) ==
    IF s = <<>> THEN <<>>
    ELSE InsertByKey(s[Len(s)], SortedByKey(SubSeq(s, 1, Len(s) - 1)))

\* sorted(blobs, key=extract_date): a ValueError of any key ends the call
\* (raised is TRUE and there is no list); otherwise the stable sort.
sort_blobs_by_date(names) ==
    LET keys == [i \in 1..Len(names) |-> extract_date(names[i])]
    IN IF \E i \in 1..Len(names) : ~keys[i].ok
       THEN [raised |-> TRUE, val |-> <<>>]
       ELSE LET dec == [i \in 1..Len(names) |->
                           [key |-> keys[i].key, val |-> names[i]]]
                srt == SortedByKey(dec)
            IN [raised |-> FALSE, val |-> [i \in 1..Len(srt) |-> srt[i].val]]

(***************************************************************************)
(* gcs.py: the object store.  bucket is the sequence of the bucket's       *)
(* objects in the order the store lists them; an object is its name and    *)
(* the lines of its text.  A line is blank or spells one JSON object with   *)
(* the fields dt, open and volume.                                         *)
(***************************************************************************)
BlankLine == [blank |-> TRUE, dt |-> "", open |-> 0, volume |-> 0]
JsonLine(dt, open) == [blank |-> FALSE, dt |-> dt, open |-> open, volume |-> 100]

\* seq[:n] of Python, n an integer
PySliceTo(s, n) ==
    IF n >= 0 THEN SubSeq(s, 1, IF n < Len(s) THEN n ELSE Len(s))
    ELSE SubSeq(s, 1, IF Len(s) + n > 0 THEN Len(s) + n ELSE 0)

RECURSIVE SelectNames(_, _)
SelectNames(objs, prefix) ==
    IF objs = <<>> THEN <<>>
    ELSE IF StartsWith(Head(objs).name, prefix)
         THEN <<Head(objs).name>> \o SelectNames(Tail(objs), prefix)
         ELSE SelectNames(Tail(objs), prefix)

\* list_blobs_in_bucket(bucket_name, prefix, limit): the names that start
\* with prefix, at most limit of them when a limit is given
list_blobs_in_bucket(objs, prefix, limit) ==
    LET all == SelectNames(objs, prefix)
    IN IF limit = NoInt THEN all ELSE PySliceTo(all, limit[1])

\* list_prefixes_in_bucket(bucket_name, prefix, delimiter="/"): for each
\* name under prefix that has a delimiter after it, the name up to and
\* including that delimiter
list_prefixes_in_bucket(objs, prefix) ==
    LET under == {objs[i].name : i \in {j \in 1..Len(objs) :
                                          StartsWith(objs[j].name, prefix)}}
        cut(n) == LET ds == {i \in (Len(prefix) + 1)..Len(n) : n[i] = SLASH}
                  IN IF ds = {} THEN 0
                     ELSE CHOOSE i \in ds : \A j \in ds : i <= j
    IN {SubSeq(n, 1, cut(n)) : n \in {m \in under : cut(m) > 0}}

\* json.loads(line): the record the line spells
json_loads(line) == [dt |-> line.dt, open |-> line.open, volume |-> line.volume]

\* load_jsonl_blob(bucket_name, blob_name): one record per line that is not
\* blank, in the order of the lines
load_jsonl_blob(objs, blob_name) ==
    LET o == objs[CHOOSE i \in 1..Len(objs) : objs[i].name = blob_name]
        kept == SelectSeq(o.lines, LAMBDA l : ~l.blank)
    IN [i \in 1..Len(kept) |-> json_loads(kept[i])]

(***************************************************************************)
(* data.py: asset identity                                                 *)
(***************************************************************************)
PolygonAssetType == {options, index, equity, forex}

POLYGON_DATA_TYPE_MAP(asset_type) ==
    CASE asset_type = options -> ohlcv
      [] asset_type = index   -> ohlc
      [] asset_type = equity  -> ohlcv
      [] asset_type = forex   -> ohlcv

\* The dataclass with its defaults; data_type is set by __post_init__.
PolygonDataAssetFull(asset_type, asset_id, data_provider, interval_type, traded) ==
    [asset_type    |-> asset_type,
     asset_id      |-> asset_id,
     data_provider |-> data_provider,
     interval_type |-> interval_type,
     traded        |-> traded,
     data_type     |-> POLYGON_DATA_TYPE_MAP(asset_type)]

PolygonDataAsset(asset_type, asset_id) ==
    PolygonDataAssetFull(asset_type, asset_id, polygon, oneDay, FALSE)

label(a) ==
    a.data_provider \o <<DOT>> \o a.asset_type \o <<DOT>> \o a.data_type
        \o <<DOT>> \o a.interval_type \o <<DOT>> \o a.asset_id

\* PolygonDataAsset.__eq__
AssetEq(a, b) == label(a) = label(b)

\* The prefix list_polygon_asset_files lists with
asset_prefix(a) ==
    LET prefix == ReplaceChar(label(a), DOT, SLASH)
    IN IF ~EndsWith(prefix, <<SLASH>>) THEN prefix \o <<SLASH>> ELSE prefix

list_polygon_asset_files(objs, a) ==
    list_blobs_in_bucket(objs, asset_prefix(a), NoInt)

get_polygon_asset_local_file_name(a) ==
    ReplaceChar(label(a), DOT, SLASH) \o dotJoblib

\* list_assets_by_type(asset_type): the ids under the type's prefix; the
\* listing is a set, the order of the result is the store's
list_assets_by_type(objs, asset_type) ==
    LET prefix == polygon \o <<SLASH>> \o asset_type \o <<SLASH>>
                    \o POLYGON_DATA_TYPE_MAP(asset_type) \o <<SLASH>>
                    \o oneDay \o <<SLASH>>
        strip(p) == LET r == RemoveAll(p, prefix)
                    IN IF EndsWith(r, <<SLASH>>)
                       THEN SubSeq(r, 1, Len(r) - 1) ELSE r
    IN {PolygonDataAsset(asset_type, strip(p)) :
            p \in list_prefixes_in_bucket(objs, prefix)}

(***************************************************************************)
(* data.py: tables and the cleaning pipeline.  A table is its rows in      *)
(* order, what its index is ("range": the default RangeIndex, "dt": the    *)
(* dt column), the dtype of its open/high/low/close columns and the prefix *)
(* of its column names.                                                    *)
(***************************************************************************)
\* pd.DataFrame(data)
DataFrame(recs) ==
    [rows |-> recs, index |-> "range", ohlc |-> "int64", prefix |-> <<>>]

\* pd.to_datetime(..., format="mixed") on the dt strings of the bucket:
\* the Timestamp a string spells, whatever its format
pd_to_datetime(s) ==
    CASE s = "2024-01-01"          -> "Timestamp(2024-01-01 00:00:00)"
      [] s = "2024-01-02"          -> "Timestamp(2024-01-02 00:00:00)"
      [] s = "2024-01-02T00:00:00" -> "Timestamp(2024-01-02 00:00:00)"
      [] s = "01/03/2024"          -> "Timestamp(2024-01-03 00:00:00)"

\* The order of the values of a dt column: of Timestamps once the column is
\* parsed, of the strings before
DtOrd(v) ==
    CASE v = "Timestamp(2024-01-01 00:00:00)" -> 1
      [] v = "Timestamp(2024-01-02 00:00:00)" -> 2
      [] v = "Timestamp(2024-01-03 00:00:00)" -> 3
      [] v = "01/03/2024"          -> 4
      [] v = "2024-01-01"          -> 5
      [] v = "2024-01-02"          -> 6
      [] v = "2024-01-02T00:00:00" -> 7

RECURSIVE InsertByDt(_, _)
InsertByDt(x, s) ==
    IF s = <<>> THEN <<x>>
    ELSE IF DtOrd(s[Len(s)].dt) <= DtOrd(x.dt) THEN Append(s, x)
         ELSE Append(InsertByDt(x, SubSeq(s, 1, Len(s) - 1)), s[Len(s)])

\* tbl.sort_values("dt"): ascending; rows of one timestamp keep their order
\* (the order numpy's sort leaves in tables this small)
RECURSIVE sort_values_dt(_)
sort_values_dt(rows) ==
    IF rows = <<>> THEN <<>>
    ELSE InsertByDt(rows[Len(rows)],
                    sort_values_dt(SubSeq(rows, 1, Len(rows) - 1)))

\* set_sort_dt_index without its sort_values
set_dt_index_unsorted(tbl, asset) ==
    LET parsed == [i \in 1..Len(tbl.rows) |->
                      [tbl.rows[i] EXCEPT !.dt = pd_to_datetime(@)]]
    IN [tbl EXCEPT !.rows = parsed, !.index = "dt"]

set_sort_dt_index(tbl, asset) ==
    LET parsed == [i \in 1..Len(tbl.rows) |->
                      [tbl.rows[i] EXCEPT !.dt = pd_to_datetime(@)]]
    IN [tbl EXCEPT !.rows = sort_values_dt(parsed), !.index = "dt"]

add_asset_id_prefixes(tbl, asset) == [tbl EXCEPT !.prefix = asset.asset_id]

ohlc_to_float(tbl, asset) == [tbl EXCEPT !.ohlc = "float64"]

CLEANERS(asset_type) ==
    CASE asset_type = options -> <<"set_sort_dt_index">>
      [] asset_type = index   -> <<>>
      [] asset_type = equity  ->
            <<"set_sort_dt_index", "ohlc_to_float", "add_asset_id_prefixes">>
      [] asset_type = forex   -> <<"set_sort_dt_index">>

CleanerFunc(name, tbl, asset) ==
    CASE name = "set_sort_dt_index"     -> set_sort_dt_index(tbl, asset)
      [] name = "ohlc_to_float"         -> ohlc_to_float(tbl, asset)
      [] name = "add_asset_id_prefixes" -> add_asset_id_prefixes(tbl, asset)

\* The loop of load_asset over CLEANERS[asset.asset_type]
RECURSIVE ApplyCleaners(_, _, _)
ApplyCleaners(funcs, tbl, asset) ==
    IF funcs = <<>> THEN tbl
    ELSE ApplyCleaners(Tail(funcs), CleanerFunc(Head(funcs), tbl, asset), asset)

(***************************************************************************)
(* The bucket of the runs of DataManager: per asset type one asset with    *)
(* two daily files, and under equity an asset whose only file holds no     *)
(* record (NIL), one with no file at all (ZZZ), one with a file that is    *)
(* not named by a date (BAD) and SPYD beside SPY.                          *)
(***************************************************************************)
DailyFile(a, day) == asset_prefix(a) \o day \o dotJsonl

d20240101 == <<"2", "0", "2", "4", "-", "0", "1", "-", "0", "1">>
d20240102 == <<"2", "0", "2", "4", "-", "0", "1", "-", "0", "2">>
latest    == <<"l", "a", "t", "e", "s", "t">>

SPY  == PolygonDataAsset(equity, <<"S", "P", "Y">>)
SPYD == PolygonDataAsset(equity, <<"S", "P", "Y", "D">>)
NIL  == PolygonDataAsset(equity, <<"N", "I", "L">>)
ZZZ  == PolygonDataAsset(equity, <<"Z", "Z", "Z">>)
BAD  == PolygonDataAsset(equity, <<"B", "A", "D">>)
EUR  == PolygonDataAsset(forex, <<"E", "U", "R">>)
SPX  == PolygonDataAsset(index, <<"S", "P", "X">>)
OPT  == PolygonDataAsset(options, <<"O", "P", "T">>)

TwoDays(a) ==
    << [name |-> DailyFile(a, d20240101),
        lines |-> <<JsonLine("2024-01-01", 1)>>],
       [name |-> DailyFile(a, d20240102),
        lines |-> <<JsonLine("2024-01-02T00:00:00", 2), BlankLine>>] >>

MainBucket ==
    << [name |-> DailyFile(BAD, latest), lines |-> <<JsonLine("2024-01-01", 1)>>],
       [name |-> DailyFile(NIL, d20240101), lines |-> <<BlankLine, BlankLine>>] >>
    \o TwoDays(SPY)
    \o << [name |-> DailyFile(SPYD, d20240101),
           lines |-> <<JsonLine("01/03/2024", 3)>>] >>
    \o TwoDays(EUR) \o TwoDays(SPX)
    \o << [name |-> DailyFile(OPT, d20240101),
           lines |-> <<JsonLine("2024-01-01", 1), JsonLine("2024-01-01", 2)>>],
          [name |-> DailyFile(OPT, d20240102),
           lines |-> <<JsonLine("2024-01-02", 3)>>] >>

MainAssets == {SPY, NIL, ZZZ, BAD, EUR, SPX, OPT}

Callers == {"t1", "t2"}

\* The largest blob_limit a caller passes
MaxBlobLimit == 3

\* The calls made in one run
MaxCalls == 3

(***************************************************************************)
(* The calls                                                               *)
(***************************************************************************)
NoTable == [rows |-> <<>>, index |-> "none", ohlc |-> "none", prefix |-> <<>>]
NoFirst ==
    [set |-> FALSE, file |-> <<>>, clean |-> FALSE, table |-> NoTable,
     intact |-> FALSE]
NotSaved == [wrote |-> FALSE, existed |-> FALSE, table |-> NoTable]
NoReq ==
    [op |-> "none", asset |-> SPY, force_reload |-> FALSE, clean |-> FALSE,
     blob_limit |-> NoInt]

LoadAssetRequests(a) ==
    {[op |-> "load_asset", asset |-> a, force_reload |-> f, clean |-> cl,
      blob_limit |-> NoInt] : f \in BOOLEAN, cl \in BOOLEAN}

RemoteRequests(a) ==
    {[op |-> "load_polygon_data_asset_from_gcs", asset |-> a,
      force_reload |-> FALSE, clean |-> TRUE, blob_limit |-> l] :
        l \in {NoInt} \cup {<<n>> : n \in 0..MaxBlobLimit}}

ListRequests(a) ==
    {[op |-> "list_assets_by_type", asset |-> a, force_reload |-> FALSE,
      clean |-> FALSE, blob_limit |-> NoInt]}

\* LocalDataCache.list_files(prefix): the files whose relative path starts
\* with prefix; os.walk decides their order
list_files(prefix) == {f \in DOMAIN cache : StartsWith(f, prefix)}

Running(c) == pc[c] \notin {"idle", "done", "failed"}

cache_file(c) == get_polygon_asset_local_file_name(req[c].asset)

\* load_polygon_data_asset_from_gcs: "if blob_limit: blobs = blobs[:blob_limit]"
truncate_blobs(sorted, blob_limit) ==
    IF blob_limit # NoInt /\ blob_limit[1] # 0
    THEN PySliceTo(sorted, blob_limit[1])
    ELSE sorted

\* The assertion stripped, as under python -O
assert_stripped(tbl) == TRUE

\* load_polygon_data_asset_from_gcs: assert len(df) > 0, "No data"
assert_has_rows(tbl) == Len(tbl.rows) > 0

\* save that leaves a file that exists as it is
save_if_absent(files, obj, file) ==
    [f \in DOMAIN files \cup {file} |->
        IF f \in DOMAIN files THEN files[f] ELSE obj]

\* LocalDataCache.save(obj, file): joblib.dump writes obj to the file,
\* creating it or replacing what it held.  The dump is taken as one step.
save(files, obj, file) ==
    [f \in DOMAIN files \cup {file} |-> IF f = file THEN obj ELSE files[f]]

\* The test with force_reload left out
use_cache_ignoring_force(force_reload, cached_files) == cached_files # {}

\* The test with force_reload inverted
use_cache_inverted(force_reload, cached_files) ==
    force_reload /\ cached_files # {}

\* load_asset: whether the cached file is used
use_cache(force_reload, cached_files) == ~force_reload /\ cached_files # {}

\* load_asset: the table returned, given the table loaded
cleaned(tbl, asset, clean) ==
    IF clean THEN ApplyCleaners(CLEANERS(asset.asset_type), tbl, asset)
    ELSE tbl

\* A fresh process over an empty cache directory
\* A cache directory without files
NoFiles == [f \in {} |-> NoTable]

\* The table an earlier run of the program left in the cache directory
OldTable == DataFrame(<<json_loads(JsonLine("2024-01-01", 9))>>)

LeftBehind(a) ==
    [f \in {get_polygon_asset_local_file_name(a)} |-> OldTable]

MainInit ==
    /\ client = 0
    /\ constructed = 0
    /\ used = {}
    /\ pc = [c \in Callers |-> "idle"]
    /\ req = [c \in Callers |-> NoReq]
    /\ hit = [c \in Callers |-> <<>>]
    /\ handle = [c \in Callers |-> 0]
    /\ blobs = [c \in Callers |-> <<>>]
    /\ pending = [c \in Callers |-> {}]
    /\ data = [c \in Callers |-> <<>>]
    /\ df = [c \in Callers |-> NoTable]
    /\ result = [c \in Callers |-> NoTable]
    /\ err = [c \in Callers |-> ""]
    /\ listing = [c \in Callers |-> {}]
    /\ ncalls = 0
    /\ downloaded = [c \in Callers |-> <<>>]
    /\ nstore = [c \in Callers |-> 0]
    /\ saved = [c \in Callers |-> NotSaved]
    /\ missAtCheck = [c \in Callers |-> FALSE]
    /\ coldAtCall = [c \in Callers |-> FALSE]
    /\ overlap = [c \in Callers |-> {}]
    /\ stale = [c \in Callers |-> FALSE]
    /\ first = NoFirst
    /\ later = [c \in Callers |-> FALSE]
    /\ intactAtLoad = [c \in Callers |-> FALSE]

SortIdle == sortIn = <<>> /\ sortOut = [called |-> FALSE, raised |-> FALSE, val |-> <<>>]

NamesIdle ==
    /\ qA = SPY
    /\ qB = SPY
    /\ qListed = [called |-> FALSE, val |-> <<>>]
    /\ qNames = [called |-> FALSE, a |-> <<>>, b |-> <<>>]

\* A caller calls load_asset, load_polygon_data_asset_from_gcs or
\* list_assets_by_type.
Call(c, r) ==
    LET file == get_polygon_asset_local_file_name(r.asset)
        others == {e \in Callers \ {c} :
                     /\ Running(e)
                     /\ req[e].op = "load_asset"
                     /\ r.op = "load_asset"
                     /\ cache_file(e) = file}
    IN
    /\ ~Running(c)
    /\ ncalls < MaxCalls
    /\ ncalls' = ncalls + 1
    /\ pc' = [pc EXCEPT ![c] = IF r.op = "load_asset" THEN "check" ELSE "client"]
    /\ req' = [req EXCEPT ![c] = r]
    /\ hit' = [hit EXCEPT ![c] = <<>>]
    /\ handle' = [handle EXCEPT ![c] = 0]
    /\ blobs' = [blobs EXCEPT ![c] = <<>>]
    /\ pending' = [pending EXCEPT ![c] = {}]
    /\ data' = [data EXCEPT ![c] = <<>>]
    /\ df' = [df EXCEPT ![c] = NoTable]
    /\ result' = [result EXCEPT ![c] = NoTable]
    /\ err' = [err EXCEPT ![c] = ""]
    /\ listing' = [listing EXCEPT ![c] = {}]
    /\ downloaded' = [downloaded EXCEPT ![c] = <<>>]
    /\ nstore' = [nstore EXCEPT ![c] = 0]
    /\ saved' = [saved EXCEPT ![c] = NotSaved]
    /\ missAtCheck' = [missAtCheck EXCEPT ![c] = FALSE]
    /\ coldAtCall' = [coldAtCall EXCEPT ![c] =
                         r.op = "load_asset" /\ list_files(file) = {}]
    /\ overlap' = [d \in Callers |->
                     IF d = c THEN others
                     ELSE IF d \in others THEN overlap[d] \cup {c}
                     ELSE overlap[d] \ {c}]
    /\ stale' = [stale EXCEPT ![c] = FALSE]
    /\ later' = [later EXCEPT ![c] =
                    r.op = "load_asset" /\ first.set /\ first.file = file]
    /\ intactAtLoad' = [intactAtLoad EXCEPT ![c] = FALSE]
    /\ UNCHANGED <<sortVars, nameVars, storeVars, clientVars, first>>

\* load_asset: cache_file, cached_files and the choice between the cache
\* and the remote load
CheckCache(c) ==
    LET cached_files == list_files(cache_file(c))
    IN
    /\ pc[c] = "check"
    /\ missAtCheck' = [missAtCheck EXCEPT ![c] = cached_files = {}]
    /\ \/ /\ use_cache(req[c].force_reload, cached_files)
          /\ \E f \in cached_files : hit' = [hit EXCEPT ![c] = f]
          /\ pc' = [pc EXCEPT ![c] = "load"]
       \/ /\ ~use_cache(req[c].force_reload, cached_files)
          /\ pc' = [pc EXCEPT ![c] = "client"]
          /\ UNCHANGED hit
    /\ UNCHANGED <<sortVars, nameVars, ncalls, storeVars, clientVars, req,
                   handle, blobs, pending, data, df, result, err, listing,
                   downloaded, nstore, saved, coldAtCall, overlap, stale,
                   first, later, intactAtLoad>>

\* load_asset: df = self.load(cached_files[0])
LoadCache(c) ==
    /\ pc[c] = "load"
    /\ df' = [df EXCEPT ![c] = cache[hit[c]]]
    /\ intactAtLoad' = [intactAtLoad EXCEPT ![c] =
                           first.set /\ first.intact /\ first.file = hit[c]]
    /\ pc' = [pc EXCEPT ![c] = "clean"]
    /\ UNCHANGED <<sortVars, nameVars, ncalls, storeVars, clientVars, req,
                   hit, handle, blobs, pending, data, result, err, listing,
                   downloaded, nstore, saved, missAtCheck, coldAtCall,
                   overlap, stale, first, later>>

AfterClient(c) ==
    IF req[c].op = "list_assets_by_type" THEN "prefixes" ELSE "list"

\* get_gcs_client(): the lru_cache holds a client
GetClientHit(c) ==
    /\ pc[c] = "client"
    /\ client # 0
    /\ handle' = [handle EXCEPT ![c] = client]
    /\ pc' = [pc EXCEPT ![c] = AfterClient(c)]
    /\ UNCHANGED <<sortVars, nameVars, storeVars, clientVars, req, hit,
                   blobs, pending, data, df, result, err, listing, histVars>>

\* get_gcs_client(): the lru_cache holds nothing, the wrapped function is
\* called
GetClientMiss(c) ==
    /\ pc[c] = "client"
    /\ client = 0
    /\ pc' = [pc EXCEPT ![c] = "construct"]
    /\ UNCHANGED <<sortVars, nameVars, storeVars, clientVars, req, hit,
                   handle, blobs, pending, data, df, result, err, listing,
                   histVars>>

\* storage.Client(project=GCP_PROJECT_ID) returns; lru_cache stores the
\* result unless another thread stored one meanwhile, and returns the result
\* of this call either way
Construct(c) ==
    /\ pc[c] = "construct"
    /\ constructed' = constructed + 1
    /\ client' = IF client = 0 THEN constructed + 1 ELSE client
    /\ handle' = [handle EXCEPT ![c] = constructed + 1]
    /\ pc' = [pc EXCEPT ![c] = AfterClient(c)]
    /\ UNCHANGED <<sortVars, nameVars, storeVars, used, req, hit, blobs,
                   pending, data, df, result, err, listing, histVars>>

\* load_polygon_data_asset_from_gcs: the listing, the sort by date, the
\* truncation and the submission of one future per blob.  A ValueError of
\* the sort ends the call.
ListBlobs(c) ==
    LET listed == list_polygon_asset_files(bucket, req[c].asset)
        srt == sort_blobs_by_date(listed)
        cut == truncate_blobs(srt.val, req[c].blob_limit)
    IN
    /\ pc[c] = "list"
    /\ used' = used \cup {handle[c]}
    /\ nstore' = [nstore EXCEPT ![c] = @ + 1]
    /\ IF srt.raised
       THEN /\ pc' = [pc EXCEPT ![c] = "failed"]
            /\ err' = [err EXCEPT ![c] = "ValueError"]
            /\ UNCHANGED <<blobs, pending>>
       ELSE /\ pc' = [pc EXCEPT ![c] = "download"]
            /\ blobs' = [blobs EXCEPT ![c] = cut]
            /\ pending' = [pending EXCEPT ![c] = 1..Len(cut)]
            /\ UNCHANGED err
    /\ UNCHANGED <<sortVars, nameVars, ncalls, storeVars, client,
                   constructed, req, hit, handle, data, df, result, listing,
                   downloaded, saved, missAtCheck, coldAtCall, overlap,
                   stale, first, later, intactAtLoad>>

\* One future completes; as_completed hands it over and data is extended
\* by its records.  The worker's get_gcs_client() finds the cached client.
Download(c, i) ==
    /\ pc[c] = "download"
    /\ i \in pending[c]
    /\ pending' = [pending EXCEPT ![c] = @ \ {i}]
    /\ data' = [data EXCEPT ![c] = @ \o load_jsonl_blob(bucket, blobs[c][i])]
    /\ downloaded' = [downloaded EXCEPT ![c] = Append(@, blobs[c][i])]
    /\ used' = used \cup {client}
    /\ nstore' = [nstore EXCEPT ![c] = @ + 1]
    /\ UNCHANGED <<sortVars, nameVars, ncalls, storeVars, client,
                   constructed, pc, req, hit, handle, blobs, df, result, err,
                   listing, saved, missAtCheck, coldAtCall, overlap, stale,
                   first, later, intactAtLoad>>

\* load_polygon_data_asset_from_gcs: every future is done; df and the
\* assertion.  load_asset goes on to save, a direct call returns df.
BuildFrame(c) ==
    LET tbl == DataFrame(data[c])
    IN
    /\ pc[c] = "download"
    /\ pending[c] = {}
    /\ IF ~assert_has_rows(tbl)
       THEN /\ pc' = [pc EXCEPT ![c] = "failed"]
            /\ err' = [err EXCEPT ![c] = "AssertionError"]
            /\ UNCHANGED <<df, result>>
       ELSE /\ df' = [df EXCEPT ![c] = tbl]
            /\ IF req[c].op = "load_asset"
               THEN /\ pc' = [pc EXCEPT ![c] = "save"]
                    /\ UNCHANGED result
               ELSE /\ pc' = [pc EXCEPT ![c] = "done"]
                    /\ result' = [result EXCEPT ![c] = tbl]
            /\ UNCHANGED err
    /\ UNCHANGED <<sortVars, nameVars, storeVars, clientVars, req, hit,
                   handle, blobs, pending, data, listing, histVars>>

\* load_asset: self.save(df, cache_file)
SaveCache(c) ==
    LET file == cache_file(c)
    IN
    /\ pc[c] = "save"
    /\ cache' = save(cache, df[c], file)
    /\ saved' = [saved EXCEPT ![c] =
                    [wrote |-> TRUE,
                     existed |-> file \in DOMAIN cache,
                     table |-> IF file \in DOMAIN cache THEN cache[file]
                               ELSE NoTable]]
    /\ stale' = [d \in Callers |->
                    IF d = c THEN FALSE
                    ELSE IF saved[d].wrote /\ cache_file(d) = file THEN TRUE
                    ELSE stale[d]]
    /\ first' = IF first.set /\ first.file = file
                THEN [first EXCEPT !.intact = FALSE] ELSE first
    /\ pc' = [pc EXCEPT ![c] = "clean"]
    /\ UNCHANGED <<sortVars, nameVars, ncalls, bucket, assets, clientVars,
                   req, hit, handle, blobs, pending, data, df, result, err,
                   listing, downloaded, nstore, missAtCheck, coldAtCall,
                   overlap, later, intactAtLoad>>

\* load_asset: the cleaners of the asset type when clean, and the return
Clean(c) ==
    LET out == cleaned(df[c], req[c].asset, req[c].clean)
    IN
    /\ pc[c] = "clean"
    /\ result' = [result EXCEPT ![c] = out]
    /\ pc' = [pc EXCEPT ![c] = "done"]
    /\ first' = IF ~first.set /\ missAtCheck[c]
                THEN [set |-> TRUE, file |-> cache_file(c),
                      clean |-> req[c].clean, table |-> out,
                      intact |-> ~stale[c]]
                ELSE first
    /\ UNCHANGED <<sortVars, nameVars, ncalls, storeVars, clientVars, req,
                   hit, handle, blobs, pending, data, df, err, listing,
                   downloaded, nstore, saved, missAtCheck, coldAtCall,
                   overlap, stale, later, intactAtLoad>>

\* list_assets_by_type: the prefixes under the type and the assets made of
\* them
ListPrefixes(c) ==
    /\ pc[c] = "prefixes"
    /\ used' = used \cup {handle[c]}
    /\ nstore' = [nstore EXCEPT ![c] = @ + 1]
    /\ listing' = [listing EXCEPT ![c] =
                      list_assets_by_type(bucket, req[c].asset.asset_type)]
    /\ pc' = [pc EXCEPT ![c] = "done"]
    /\ UNCHANGED <<sortVars, nameVars, ncalls, storeVars, client,
                   constructed, req, hit, handle, blobs, pending, data, df,
                   result, err, downloaded, saved, missAtCheck, coldAtCall,
                   overlap, stale, first, later, intactAtLoad>>

\* What a caller inside load_asset or the remote loader does next
Step(c) ==
    \/ CheckCache(c)
    \/ LoadCache(c)
    \/ GetClientHit(c)
    \/ GetClientMiss(c)
    \/ Construct(c)
    \/ ListBlobs(c)
    \/ \E i \in pending[c] : Download(c, i)
    \/ BuildFrame(c)
    \/ SaveCache(c)
    \/ Clean(c)

(***************************************************************************)
(* Spec: two threads call load_asset for one asset, in any interleaving.   *)
(***************************************************************************)
\* The assets two threads load at once: one with records, one without
SharedAssets == {SPY, NIL}

Init ==
    /\ MainInit
    /\ bucket = MainBucket
    /\ assets \in {{a} : a \in SharedAssets}
    /\ cache = NoFiles
    /\ SortIdle
    /\ NamesIdle

Next ==
    \E c \in Callers :
        \/ \E a \in assets : \E r \in LoadAssetRequests(a) : Call(c, r)
        \/ Step(c)

Spec == Init /\ [][Next]_vars

(***************************************************************************)
(* SpecSeq: one thread makes every kind of call for one asset.             *)
(***************************************************************************)
InitSeq ==
    /\ MainInit
    /\ bucket = MainBucket
    /\ \E a \in MainAssets :
          /\ assets = {a}
          /\ cache \in {NoFiles, LeftBehind(a)}
    /\ SortIdle
    /\ NamesIdle

NextSeq ==
    \/ \E a \in assets :
         \E r \in LoadAssetRequests(a) \cup RemoteRequests(a) \cup ListRequests(a) :
            Call("t1", r)
    \/ Step("t1")
    \/ ListPrefixes("t1")

SpecSeq == InitSeq /\ [][NextSeq]_vars

(***************************************************************************)
(* SpecSort: sort_blobs_by_date on every list of at most MaxSortLen names  *)
(* of BlobPool: dates in and out of order, one date under two names and in *)
(* two spellings, and names that carry no date.                            *)
(***************************************************************************)
MaxSortLen == 3

blobA0105 ==
    <<"a", "/", "2", "0", "2", "4", "-", "0", "1", "-", "0", "5">> \o dotJsonl
blobA0101 == <<"a", "/">> \o d20240101 \o dotJsonl
blobB0101 == <<"b", "/">> \o d20240101 \o dotJsonl
blobA11 == <<"a", "/", "2", "0", "2", "4", "-", "1", "-", "1">> \o dotJsonl
blobLatest == <<"a", "/">> \o latest \o dotJsonl
blobFeb30 ==
    <<"a", "/", "2", "0", "2", "4", "-", "0", "2", "-", "3", "0">> \o dotJsonl
blob1231 == <<"2", "0", "2", "3", "-", "1", "2", "-", "3", "1">> \o dotJsonl

BlobPool ==
    {blobA0105, blobA0101, blobB0101, blobA11, blobLatest, blobFeb30, blob1231}

SeqsUpTo(S, n) == UNION {[1..k -> S] : k \in 0..n}

InitSort ==
    /\ MainInit
    /\ bucket = <<>>
    /\ assets = {}
    /\ cache = NoFiles
    /\ NamesIdle
    /\ sortIn \in SeqsUpTo(BlobPool, MaxSortLen)
    /\ sortOut = [called |-> FALSE, raised |-> FALSE, val |-> <<>>]

SortCall ==
    /\ ~sortOut.called
    /\ sortOut' = [called |-> TRUE,
                   raised |-> sort_blobs_by_date(sortIn).raised,
                   val |-> sort_blobs_by_date(sortIn).val]
    /\ UNCHANGED <<mainVars, nameVars, sortIn>>

SpecSort == InitSort /\ [][SortCall]_vars

(***************************************************************************)
(* SpecNames: the file listing and the cache file names of asset           *)
(* identities whose fields hold dots and separators, over a bucket that    *)
(* holds one file per asset.                                               *)
(***************************************************************************)
IdPool ==
    { <<"S", "P", "Y">>, <<"S", "P", "Y", "D">>, <<"S", "P", "Y", ".", "D">>,
      <<"S", "P", "Y", "/", "D">> }

IdentityPool ==
    {PolygonDataAssetFull(t, id, polygon, oneDay, tr) :
        t \in {equity, index}, id \in IdPool, tr \in BOOLEAN}

StoredAssets ==
    << PolygonDataAsset(equity, <<"S", "P", "Y">>),
       PolygonDataAsset(equity, <<"S", "P", "Y", ".", "D">>),
       PolygonDataAsset(equity, <<"S", "P", "Y", "D">>),
       PolygonDataAsset(index, <<"S", "P", "Y">>),
       PolygonDataAsset(index, <<"S", "P", "Y", ".", "D">>),
       PolygonDataAsset(index, <<"S", "P", "Y", "D">>) >>

NamesBucket ==
    [i \in 1..Len(StoredAssets) |->
        [name |-> DailyFile(StoredAssets[i], d20240101),
         lines |-> <<JsonLine("2024-01-01", i)>>]]

InitNames ==
    /\ MainInit
    /\ bucket = NamesBucket
    /\ assets = {}
    /\ cache = NoFiles
    /\ SortIdle
    /\ qA \in IdentityPool
    /\ qB \in IdentityPool
    /\ qListed = [called |-> FALSE, val |-> <<>>]
    /\ qNames = [called |-> FALSE, a |-> <<>>, b |-> <<>>]

ListAssetFiles ==
    /\ ~qListed.called
    /\ qListed' = [called |-> TRUE, val |-> list_polygon_asset_files(bucket, qA)]
    /\ UNCHANGED <<mainVars, sortVars, qA, qB, qNames>>

LocalFileNames ==
    /\ ~qNames.called
    /\ qNames' = [called |-> TRUE,
                  a |-> get_polygon_asset_local_file_name(qA),
                  b |-> get_polygon_asset_local_file_name(qB)]
    /\ UNCHANGED <<mainVars, sortVars, qA, qB, qListed>>

NextNames == ListAssetFiles \/ LocalFileNames

SpecNames == InitNames /\ [][NextNames]_vars

(***************************************************************************)
(* Properties of sort_blobs_by_date (SpecSort)                             *)
(***************************************************************************)
\* The date each name of BlobPool carries in its last path segment, as
\* yyyymmdd, and 0 for a name that carries none.
PoolDate(n) ==
    CASE n = blobA0105  -> 20240105
      [] n = blobA0101  -> 20240101
      [] n = blobB0101  -> 20240101
      [] n = blobA11    -> 20240101
      [] n = blobLatest -> 0
      [] n = blobFeb30  -> 0
      [] n = blob1231   -> 20231231

\* out holds the elements of in, each as often, in ascending order of date,
\* and elements of one date in the order they have in in.
StableAscending(in, out) ==
    /\ Len(out) = Len(in)
    /\ \A i \in 1..(Len(out) - 1) : PoolDate(out[i]) <= PoolDate(out[i + 1])
    /\ \E p \in Permutations(1..Len(in)) :
         /\ \A i \in 1..Len(in) : out[p[i]] = in[i]
         /\ \A i, j \in 1..Len(in) :
               (i < j /\ PoolDate(in[i]) = PoolDate(in[j])) => p[i] < p[j]

\* C4: sort_blobs_by_date returns its input reordered by ascending date of
\* the last path segment, names of one date in their input order; when one
\* name carries no date the whole call raises and returns no list.
C4_SortByEmbeddedDate ==
    sortOut.called =>
        IF \E i \in 1..Len(sortIn) : PoolDate(sortIn[i]) = 0
        THEN sortOut.raised /\ sortOut.val = <<>>
        ELSE ~sortOut.raised /\ StableAscending(sortIn, sortOut.val)

\* Three names, two of one date, come back reordered with the tie kept.
C4_Witness ==
    /\ sortOut.called
    /\ sortIn = <<blobA0105, blobB0101, blobA0101>>
    /\ sortOut.val = <<blobB0101, blobA0101, blobA0105>>

(***************************************************************************)
(* Properties of asset identities (SpecNames)                              *)
(***************************************************************************)
IsProperPrefix(p, s) == Len(p) < Len(s) /\ StartsWith(s, p)

SameSeries(a, b) ==
    /\ a.data_provider = b.data_provider
    /\ a.asset_type = b.asset_type
    /\ a.interval_type = b.interval_type

\* C3: list_polygon_asset_files(A) lists with a prefix that ends in a
\* separator and returns only names under A's label path, none of them a
\* file of another asset B of the same provider, type and interval whose id
\* starts with A's id.
C3_PrefixIsolation ==
    qListed.called =>
        /\ EndsWith(asset_prefix(qA), <<SLASH>>)
        /\ \A i \in 1..Len(qListed.val) :
              StartsWith(qListed.val[i], ReplaceChar(label(qA), DOT, SLASH))
        /\ (SameSeries(qA, qB) /\ IsProperPrefix(qA.asset_id, qB.asset_id)) =>
              \A i \in 1..Len(qListed.val) :
                  ~StartsWith(qListed.val[i], asset_prefix(qB))

\* C10: two asset identities have the same cache file name exactly when
\* they are equal (their labels match), also when their fields hold dots or
\* separators.
C10_OneCacheFilePerIdentity ==
    qNames.called => ((qNames.a = qNames.b) <=> AssetEq(qA, qB))

(***************************************************************************)
(* Properties of DataManager.load_asset under two threads (Spec)           *)
(***************************************************************************)
LoadAssetDone(c) == pc[c] = "done" /\ req[c].op = "load_asset"

\* The records of the blobs in names, in that order
RECURSIVE RecordsOf(_)
RecordsOf(names) ==
    IF names = <<>> THEN <<>>
    ELSE load_jsonl_blob(bucket, Head(names)) \o RecordsOf(Tail(names))

\* C1 as stated: once a load_asset from a cold cache has returned, every
\* later load_asset with force_reload=False makes no object store call and,
\* for the same clean flag, returns a table equal to the one that first
\* call returned.
C1_CacheHitEqualsFirst ==
    \A c \in Callers :
        (LoadAssetDone(c) /\ later[c] /\ ~req[c].force_reload) =>
            /\ nstore[c] = 0
            /\ req[c].clean = first.clean => result[c] = first.table

\* C1 amended: the later call makes no object store call, and returns the
\* table of the first call when no remote load has written the cache file
\* after the first call's own write.
C1_CacheHitAmended ==
    \A c \in Callers :
        (LoadAssetDone(c) /\ later[c] /\ ~req[c].force_reload) =>
            /\ nstore[c] = 0
            /\ (intactAtLoad[c] /\ req[c].clean = first.clean) =>
                  result[c] = first.table

\* A later call with the clean flag of the first one returned the first
\* call's two rows from the cache.
C1_Witness ==
    \E c \in Callers :
        /\ LoadAssetDone(c) /\ later[c] /\ ~req[c].force_reload
        /\ intactAtLoad[c] /\ req[c].clean = first.clean
        /\ nstore[c] = 0
        /\ Len(result[c].rows) = 2
        /\ result[c] = first.table

\* C2: a load_asset with force_reload=True, or one that finds no cached
\* file of the asset's cache name, loads from the bucket; once that load
\* has succeeded the cache file holds the table of the records downloaded,
\* uncleaned, until a later write replaces it.
C2_CacheWriteOnMissOrForce ==
    \A c \in Callers :
        (req[c].op = "load_asset" /\ pc[c] \notin {"idle", "check"}
            /\ (req[c].force_reload \/ missAtCheck[c])) =>
            /\ pc[c] # "load" /\ hit[c] = <<>>
            /\ pc[c] \in {"clean", "done"} =>
                  /\ saved[c].wrote
                  /\ nstore[c] = 1 + Len(downloaded[c])
                  /\ df[c] = DataFrame(RecordsOf(downloaded[c]))
                  /\ ~stale[c] => cache[cache_file(c)] = df[c]

\* A forced reload has replaced a cached table by a different one.
C2_Witness ==
    \E c \in Callers :
        /\ LoadAssetDone(c) /\ req[c].force_reload /\ req[c].clean
        /\ saved[c].wrote /\ saved[c].existed /\ saved[c].table # df[c]
        /\ cache[cache_file(c)] = df[c]
        /\ result[c] # df[c]

Overlapping(c, d) ==
    /\ c # d
    /\ d \in overlap[c]
    /\ LoadAssetDone(c)
    /\ LoadAssetDone(d)
    /\ cache_file(c) = cache_file(d)

LaterWriteWon(c, d) ==
    /\ nstore[c] > 0 /\ nstore[d] > 0
    /\ saved[c].wrote /\ saved[d].wrote
    /\ \E w \in {c, d} : ~stale[w] /\ cache[cache_file(w)] = df[w]

C7_SingleSharedClient == constructed <= 1 /\ Cardinality(used) <= 1

(***************************************************************************)
(* Properties of the calls of one thread (SpecSeq)                         *)
(***************************************************************************)
\* The files of the asset, sorted by date
SortedFiles(a) == sort_blobs_by_date(list_polygon_asset_files(bucket, a)).val

SameElements(s, t) ==
    /\ Len(s) = Len(t)
    /\ \E p \in Permutations(1..Len(s)) : \A i \in 1..Len(s) : t[p[i]] = s[i]

RemoteCall(c) == req[c].op \in {"load_asset", "load_polygon_data_asset_from_gcs"}

\* Every future of the call has completed
Loaded(c) ==
    \/ pc[c] \in {"save", "clean", "done"} /\ hit[c] = <<>>
    \/ pc[c] = "failed" /\ err[c] = "AssertionError"

\* C5: a remote load that yields no row raises instead of returning an
\* empty table, and the call writes no cache file.
C5_EmptyRemoteIsError ==
    \A c \in Callers :
        (RemoteCall(c) /\ Loaded(c) /\ RecordsOf(downloaded[c]) = <<>>) =>
            /\ pc[c] = "failed"
            /\ err[c] = "AssertionError"
            /\ result[c] = NoTable
            /\ ~saved[c].wrote
            /\ cache \in {NoFiles, LeftBehind(req[c].asset)}

\* load_asset has downloaded a file that holds no record and has raised.
C5_Witness ==
    \E c \in Callers :
        /\ req[c].op = "load_asset"
        /\ pc[c] = "failed" /\ err[c] = "AssertionError"
        /\ req[c].force_reload
        /\ Len(downloaded[c]) = 1
        /\ ~saved[c].wrote
        /\ cache = LeftBehind(req[c].asset)

\* The moment in time a dt value spells
Chrono(v) ==
    CASE v \in {"Timestamp(2024-01-01 00:00:00)", "2024-01-01"} -> 1
      [] v \in {"Timestamp(2024-01-02 00:00:00)", "2024-01-02",
                "2024-01-02T00:00:00"} -> 2
      [] v \in {"Timestamp(2024-01-03 00:00:00)", "01/03/2024"} -> 3

AscendingDt(rows) ==
    \A i \in 1..(Len(rows) - 1) : Chrono(rows[i].dt) <= Chrono(rows[i + 1].dt)

\* C8 as stated: for an asset of any of the four types, load_asset with
\* clean=True returns rows in ascending dt order whatever the order in
\* which the downloads complete.
C8_CleanedRowsAscending ==
    \A c \in Callers :
        (LoadAssetDone(c) /\ req[c].clean) => AscendingDt(result[c].rows)

\* C8 amended: the same for the types options, equity and forex; index has
\* no cleaner, so its rows stay in completion order.
C8_CleanedRowsAmended ==
    \A c \in Callers :
        (LoadAssetDone(c) /\ req[c].clean
            /\ req[c].asset.asset_type \in {options, equity, forex}) =>
            /\ AscendingDt(result[c].rows)
            /\ result[c].index = "dt"

\* The downloads completed out of date order and the cleaned table is in
\* date order.
C8_Witness ==
    \E c \in Callers :
        /\ LoadAssetDone(c) /\ req[c].clean
        /\ req[c].asset.asset_type = options
        /\ ~AscendingDt(df[c].rows)
        /\ AscendingDt(result[c].rows)
        /\ Len(result[c].rows) = 3

\* C9: load_polygon_data_asset_from_gcs with a blob_limit >= 0 downloads the
\* first min(blob_limit, n) files of the date-sorted list, each once, and
\* no other; without a blob_limit it downloads all n.
C9_BlobLimitTruncation ==
    \A c \in Callers :
        (req[c].op = "load_polygon_data_asset_from_gcs" /\ Loaded(c)) =>
            LET all == SortedFiles(req[c].asset)
                lim == req[c].blob_limit
                want == IF lim = NoInt THEN all
                        ELSE SubSeq(all, 1, IF lim[1] < Len(all) THEN lim[1]
                                            ELSE Len(all))
            IN SameElements(downloaded[c], want)

=============================================================================
